---- MODULE Spec2Model ----
(***************************************************************************)
(* A model of the documentation crawler (crawler.py) and of the cache      *)
(* gateway it uses (utils.py).                                             *)
(*                                                                         *)
(* One crawl_documentation call is modelled as a set of cooperative        *)
(* crawl_recursive tasks on one event loop.  A step of the model is what   *)
(* one task runs between two suspension points: the entry checks up to the *)
(* semaphore or the network request, the completion of a network request   *)
(* up to the gather, and the return from a gather.                         *)
(*                                                                         *)
(* The stages that follow the crawl (parser.py, analyzer.py,              *)
(* output_generator.py) are modelled as one run of the pipeline over a     *)
(* batch of crawled pages, one step per stage.                             *)
(***************************************************************************)
EXTENDS Integers, Sequences, FiniteSets, TLC

\* ------------------------------------------------------------- bounds
\* max_depth is drawn from -1..MaxDepthLimit, max_pages from 0..MaxPagesLimit.
MaxDepthLimit == 2
MaxPagesLimit == 3
\* Number of pages the index page of the "wide" site links to; the start
\* page of that site is crawled with max_depth 1 and max_pages 2.
Fanout == 7

\* A pipeline run takes at most BatchLimit pages.
BatchLimit == 2
\* Number of items "item1", "item2", ... the enumeration page lists.
EnumItems == 9
\* Number of characters of the long item of the plugins page.
LongItem == 180
\* Number of clusters the embedding path forms at most, and number of
\* candidates it is given at most.
MaxClusters == 2
MaxLabelled == 5

\* -------------------------------------------------- program constants
SemaphoreSlots == 5
LinkCap == 10
\* crawl_documentation's default max_pages.
DefaultMaxPages == 50

VARIABLES
    start_url,      \* crawl_documentation's start_url argument
    max_depth,      \* crawl_documentation's max_depth argument
    max_pages,      \* crawl_documentation's max_pages argument
    site,           \* which web site the network serves
    config,         \* config.CACHE_ENABLED, config.CACHE_REDIS_URL (set or not)
    store_up,       \* whether the key-value store answers
    store,          \* the key-value store: cache key -> stored string
    visited_urls,   \* AsyncCrawler.visited_urls
    results,        \* crawl_documentation's results dict: url -> record
    tasks,          \* crawl_recursive invocations: <<parent url, url>> -> [pc, depth, turn]
    sem_value,      \* asyncio.Semaphore._value
    sem_waiters,    \* asyncio.Semaphore._waiters (FIFO)
    outcome,        \* of the crawl_documentation call: running, returned, raised
    log,            \* history: url -> what fetch_page did for it
    call,           \* last call of a cache gateway operation by another client
    pc,             \* the stage the pipeline run is at ("idle": no run)
    pages_data,     \* parse_multiple_pages' argument, in the dict's order
    embedder,       \* ModuleAnalyzer.embedder is set (EMBEDDINGS_AVAILABLE)
    llm,            \* use_llm, LLM_AVAILABLE, OPENAI_API_KEY set, and where the
                    \* generative backend fails: [fails, at]
    include_metadata, \* generate_json's include_metadata argument
    parsed_pages,   \* what parse_multiple_pages returned
    candidate_modules, \* what extract_candidate_modules returned
    labels,         \* the labels DBSCAN gave the candidates (embedding path)
    clusters,       \* the clusters cluster_modules formed (embedding path)
    clustered_modules, \* what cluster_modules returned
    modules,        \* what analyze_documentation returned
    json_text,      \* what generate_json returned
    trouble         \* how the run went wrong: "none", or the exception

\* The crawl's variables and the pipeline run's.
cvars == <<start_url, max_depth, max_pages, site, config, store_up, store,
           visited_urls, results, tasks, sem_value, sem_waiters, outcome, log, call>>

pvars == <<pc, pages_data, embedder, llm, include_metadata, parsed_pages,
           candidate_modules, labels, clusters, clustered_modules, modules,
           json_text, trouble>>

vars == <<cvars, pvars>>

\* No pipeline run: the state of its variables while a crawl is modelled.
\* ModuleAnalyzer(use_llm=False), with the generative backend installed and
\* configured.
LlmOff == [use_llm |-> FALSE, LLM_AVAILABLE |-> TRUE, OPENAI_API_KEY |-> TRUE,
           fails |-> "none", at |-> 0]

NoRun ==
    /\ pc = "idle"
    /\ pages_data = << >>
    /\ embedder = FALSE
    /\ llm = LlmOff
    /\ include_metadata = FALSE
    /\ parsed_pages = << >>
    /\ candidate_modules = << >>
    /\ labels = << >>
    /\ clusters = << >>
    /\ clustered_modules = << >>
    /\ modules = << >>
    /\ json_text = << >>
    /\ trouble = "none"

params == <<start_url, max_depth, max_pages, site, config, store_up>>

\* ---------------------------------------------------------------- URLs
\* A URL string is modelled by its parts: the host (netloc, "" when the URL
\* has none, as in file:///5), the path, and what follows the path: nothing,
\* a trailing slash, a query or a fragment.
Url(h, p, t) == [host |-> h, path |-> p, trail |-> t]

NoUrl == Url("-", 0, "")

SeedHost == "a.com"

OtherHost == "b.org"

Trails == {"", "/", "?q", "#f"}

\* utils.normalize_url: scheme://netloc/path, then rstrip('/').
normalize_url(u) == [u EXCEPT !.trail = ""]

\* utils.extract_domain
extract_domain(u) == u.host

\* A filter that lets every link through.
is_internal_link_any(u, base_domain) == TRUE

\* AsyncCrawler.is_internal_link
is_internal_link(u, base_domain) == u.host = base_domain \/ u.host = ""

\* ------------------------------------------------------------ markup
\* An href of an <a> tag: relative, absolute, "#...", "javascript:..." or
\* one that urllib cannot parse (urljoin raises ValueError on it).
Href(k, h, p, t) == [kind |-> k, host |-> h, path |-> p, trail |-> t]

Rel(p, t) == Href("rel", "", p, t)

Abs(h, p, t) == Href("abs", h, p, t)

Anchor == Href("anchor", "", 0, "#f")

Js == Href("js", "", 0, "")

Bad == Href("bad", "", 0, "")

\* urllib.parse.urljoin(url, href), for an href it can parse.
urljoin(url, href) ==
    IF href.kind = "rel" THEN Url(url.host, href.path, href.trail)
    ELSE Url(href.host, href.path, href.trail)

\* The hrefs of the page at path p of the "docs" site, in document order.
DocsHrefs(p) ==
    CASE p = 0 -> << Rel(1, ""), Abs(SeedHost, 2, "/"), Abs(OtherHost, 7, ""),
                     Anchor, Js, Rel(0, "?q"), Abs("", 5, "") >>
      [] p = 1 -> << Rel(2, "#f"), Rel(3, ""), Rel(1, "/") >>
      [] p = 2 -> << Rel(3, "/"), Rel(0, ""), Bad >>
      [] p = 3 -> << Rel(1, ""), Rel(3, "?q"), Abs(OtherHost, 7, "/") >>
      [] OTHER -> << >>

\* The hrefs of the page at path p of the "wide" site.
WideHrefs(p) ==
    IF p = 0 THEN [i \in 1..Fanout |-> Rel(i, "")]
    ELSE << Rel(0, "/") >>

\* The hrefs of the page at path p of the "hub" site: its index page links
\* to one page more than the semaphore has permits.
HubHrefs(p) ==
    IF p = 0 THEN [i \in 1..(SemaphoreSlots + 1) |-> Rel(i, "")]
    ELSE << Rel(0, ""), Rel(p, "#f") >>

\* The hrefs of the page at path p of the "diamond" site: page 4 is two
\* links from the index page through page 1 and three through pages 2 and
\* 3, and links to page 5.
DiamondHrefs(p) ==
    CASE p = 0 -> << Rel(1, ""), Rel(2, "") >>
      [] p = 1 -> << Rel(4, "") >>
      [] p = 2 -> << Rel(3, "") >>
      [] p = 3 -> << Rel(4, "") >>
      [] p = 4 -> << Rel(5, "") >>
      [] OTHER -> << >>

\* The hrefs of the page at path p of the "many" site: its index page links
\* to one page more than crawl_recursive follows.
ManyHrefs(p) ==
    IF p = 0 THEN [i \in 1..(LinkCap + 1) |-> Rel(i, "")] ELSE << >>

SiteHrefs(s, p) ==
    CASE s = "docs" -> DocsHrefs(p)
      [] s = "wide" -> WideHrefs(p)
      [] s = "diamond" -> DiamondHrefs(p)
      [] s = "many" -> ManyHrefs(p)
      [] OTHER -> HubHrefs(p)

\* What the network can answer to a GET of u: "ok" (200, text and markup),
\* "empty" (200, markup without text), "http404", "neterr" (the request
\* raises), "parseerr" (BeautifulSoup raises on the body).
Responses(s, u) ==
    IF u.host # SeedHost THEN {"neterr"}
    ELSE IF s = "docs" THEN
        CASE u.path = 0 -> {"ok", "neterr"}
          [] u.path = 1 -> {"ok"}
          [] u.path = 2 -> {"ok", "http404"}
          [] u.path = 3 -> {"ok", "parseerr", "empty"}
          [] OTHER -> {"http404"}
    ELSE IF s = "wide" THEN
        IF u.path = 1 THEN {"ok", "http404"}
        ELSE IF u.path <= Fanout THEN {"ok"}
        ELSE {"http404"}
    ELSE IF s \in {"diamond", "many"} THEN {"ok"}
    ELSE IF u.path = 1 THEN {"ok", "neterr"}
    ELSE {"ok"}

\* Page text and page source.  src tells a value served by the network from
\* one that was put in the store before the crawl.
NoValue == [kind |-> "none", page |-> 0, src |-> ""]

EmptyText == [kind |-> "empty", page |-> 0, src |-> ""]

Text(p, src) == [kind |-> "text", page |-> p, src |-> src]

Markup(p, src) == [kind |-> "html", page |-> p, src |-> src]

\* A test that takes every str, the empty one too ("is not None").
Truthy_notnone(x) == x.kind # "none"

\* Python truthiness of an Optional[str].
Truthy(x) == x.kind \notin {"none", "empty"}

\* ------------------------------------------------------ cache gateway
\* What the store holds under a key: the JSON text of a dict with the page's
\* content and html, or text that json.loads cannot decode.
NoEntry == [json |-> "absent", content |-> NoValue, html |-> NoValue]

Garbage == [json |-> "garbage", content |-> NoValue, html |-> NoValue]

Entry(content, html) == [json |-> "dict", content |-> content, html |-> html]

\* CacheManager.get_key: prefix and a hash of the URL string.
get_key(url, prefix) == <<prefix, url>>

\* CacheManager.__init__: self.cache is a client only if caching is enabled
\* and a store URL is configured.
CacheClient(S) == S.config.CACHE_ENABLED /\ S.config.CACHE_REDIS_URL

\* The redis client's get/setex/delete raise when the store does not answer.
RedisRaises(S) == ~S.store_up

\* The result of a gateway call: raised tells an exception left the call,
\* value is what get returned, ok what set or delete returned, store the
\* store after the call.
Ret(v, ok, st) == [raised |-> FALSE, value |-> v, ok |-> ok, store |-> st]

Raise(st) == [raised |-> TRUE, value |-> NoEntry, ok |-> FALSE, store |-> st]

\* A get without its try/except: the store's exception leaves the call.
CacheManager_get_unguarded(S, key) ==
    IF ~CacheClient(S) THEN Ret(NoEntry, FALSE, S.store)
    ELSE IF RedisRaises(S) THEN Raise(S.store)
    ELSE IF key \notin DOMAIN S.store THEN Ret(NoEntry, FALSE, S.store)
    ELSE IF S.store[key].json = "garbage" THEN Raise(S.store)
    ELSE Ret(S.store[key], FALSE, S.store)

\* CacheManager.get
CacheManager_get(S, key) ==
    IF ~CacheClient(S) THEN Ret(NoEntry, FALSE, S.store)
    ELSE IF RedisRaises(S) THEN Ret(NoEntry, FALSE, S.store)
    ELSE IF key \notin DOMAIN S.store THEN Ret(NoEntry, FALSE, S.store)
    ELSE IF S.store[key].json = "garbage" THEN Ret(NoEntry, FALSE, S.store)
    ELSE Ret(S.store[key], FALSE, S.store)

\* CacheManager.set
CacheManager_set(S, key, value) ==
    IF ~CacheClient(S) THEN Ret(NoEntry, FALSE, S.store)
    ELSE IF RedisRaises(S) THEN Ret(NoEntry, FALSE, S.store)
    ELSE Ret(NoEntry, TRUE, (key :> value) @@ S.store)

\* CacheManager.delete
CacheManager_delete(S, key) ==
    IF ~CacheClient(S) THEN Ret(NoEntry, FALSE, S.store)
    ELSE IF RedisRaises(S) THEN Ret(NoEntry, FALSE, S.store)
    ELSE Ret(NoEntry, TRUE, [k \in DOMAIN S.store \ {key} |-> S.store[k]])

\* ------------------------------------------------- the crawl's state
\* The state a step works on, threaded through the statements of the step
\* and committed at its end.
Cur ==
    [config |-> config, store_up |-> store_up, store |-> store,
     visited_urls |-> visited_urls, results |-> results, tasks |-> tasks,
     sem_value |-> sem_value, sem_waiters |-> sem_waiters,
     outcome |-> outcome, log |-> log]

Commit(S) ==
    /\ visited_urls' = S.visited_urls
    /\ results' = S.results
    /\ tasks' = S.tasks
    /\ sem_value' = S.sem_value
    /\ sem_waiters' = S.sem_waiters
    /\ store' = S.store
    /\ outcome' = S.outcome
    /\ log' = S.log
    /\ UNCHANGED <<params, call, pvars>>

\* The crawl_recursive(start_url, 0, base_domain) that crawl_documentation awaits.
Root == <<NoUrl, start_url>>

\* What fetch_page did for a URL: how often it was called, how many requests
\* it sent, the entry the cache held when it looked, and how it ended ("hit",
\* "ok", "empty" or "fail").
NoLog == [calls |-> 0, reqs |-> 0, held |-> NoEntry, result |-> "none"]

LogOf(S, u) == IF u \in DOMAIN S.log THEN S.log[u] ELSE NoLog

SetLog(S, u, e) == [S EXCEPT !.log = (u :> e) @@ S.log]

\* The coroutine of task t ends, by returning ("done") or by an exception
\* ("raised"); crawl_documentation awaits the root directly and ends with it.
Finish(S, t, how) ==
    LET S1 == [S EXCEPT !.tasks[t].pc = how]
    IN  IF t = Root
        THEN [S1 EXCEPT !.outcome = IF how = "done" THEN "returned" ELSE "raised"]
        ELSE S1

\* ---------------------------------------------------------- semaphore
\* A semaphore that never makes an acquire wait.
locked_never(S) == FALSE

\* asyncio.Semaphore.locked
locked(S) == S.sem_value = 0 \/ S.sem_waiters # <<>>

Waiting(S) == {i \in 1..Len(S.sem_waiters) : S.tasks[S.sem_waiters[i]].pc = "waitsem"}

\* asyncio.Semaphore._wake_up_next: hand a permit to the first waiter that
\* was not woken yet.
wake_up_next(S) ==
    IF Waiting(S) = {} THEN S
    ELSE LET i == CHOOSE j \in Waiting(S) : \A k \in Waiting(S) : j <= k
         IN  [S EXCEPT !.sem_value = @ - 1, !.tasks[S.sem_waiters[i]].pc = "granted"]

\* A permit that is never given back.
release_lost(S) == S

\* asyncio.Semaphore.release
release(S) == wake_up_next([S EXCEPT !.sem_value = @ + 1])

RECURSIVE wake_while_free(_)
\* The end of asyncio.Semaphore.acquire for a woken waiter.
wake_while_free(S) ==
    IF S.sem_value > 0 /\ Waiting(S) # {} THEN wake_while_free(wake_up_next(S)) ELSE S

\* ------------------------------------------------------- link extraction
PageHrefs(html) == SiteHrefs(site, html.page)

Range(seq) == {seq[i] : i \in 1..Len(seq)}

\* The hrefs extract_links passes to urljoin.
Joined(html) == {h \in Range(PageHrefs(html)) : h.kind \notin {"anchor", "js"}}

\* extract_links raises when urljoin does.
extract_links_raises(html) == \E h \in Joined(html) : h.kind = "bad"

\* AsyncCrawler.extract_links, as the set its result list is made from.
extract_links(url, html, base_domain) ==
    {l \in {normalize_url(urljoin(url, h)) : h \in Joined(html)} :
        is_internal_link(l, base_domain)}

\* links[:10] of list(set(links)): the order of the list is the set's
\* iteration order, so any LinkCap of the links may be the ones kept.
links_slice(links) ==
    IF Cardinality(links) <= LinkCap THEN {links}
    ELSE {K \in SUBSET links : Cardinality(K) = LinkCap}

\* AsyncCrawler.extract_title
extract_title(html) == [kind |-> "title", page |-> html.page, src |-> html.src]

\* ------------------------------------------------------ crawl_recursive
\* Entry checks without the depth check.
EntryRejects_nodepth(S, url, depth) ==
    \/ Cardinality(DOMAIN S.results) >= max_pages
    \/ url \in S.visited_urls

\* Entry checks without the page-cap check.
EntryRejects_nopages(S, url, depth) ==
    \/ depth > max_depth
    \/ url \in S.visited_urls

\* Entry checks without the visited check.
EntryRejects_novisited(S, url, depth) ==
    \/ depth > max_depth
    \/ Cardinality(DOMAIN S.results) >= max_pages

\* The three checks at the entry of crawl_recursive.
EntryRejects(S, url, depth) ==
    \/ depth > max_depth
    \/ Cardinality(DOMAIN S.results) >= max_pages
    \/ url \in S.visited_urls

\* A crawl_recursive that forgets to record the URL.
MarkVisited_skip(S, url) == S

\* self.visited_urls.add(url)
MarkVisited(S, url) == [S EXCEPT !.visited_urls = @ \cup {url}]

\* The guard of the link expansion.
ShouldExpand(depth) == depth < max_depth

PageRecord(url, content, html, depth) ==
    [url |-> url, content |-> content, html |-> html, depth |-> depth,
     title |-> extract_title(html)]

\* The child coroutines crawl_recursive creates and hands to gather.  gather
\* puts their first steps on the event loop's ready queue one after the
\* other: turn numbers the gathers in the order they were called.
Spawn(S, t, kept) ==
    LET url == t[2]
        new == {l \in kept : l \notin S.visited_urls}
        last == CHOOSE n \in {S.tasks[k].turn : k \in DOMAIN S.tasks} :
                    \A k \in DOMAIN S.tasks : S.tasks[k].turn <= n
        kids == [k \in {<<url, l>> : l \in new} |->
                    [pc |-> "new", depth |-> S.tasks[t].depth + 1, turn |-> last + 1]]
    IN  IF new = {} THEN Finish(S, t, "done")
        ELSE [S EXCEPT !.tasks = [kids @@ S.tasks EXCEPT ![t].pc = "gather"]]

\* crawl_recursive from the return of fetch_page to the gather (or the end):
\* the set of states it can leave.
crawl_continue(S, t, content, html) ==
    LET url == t[2]
        depth == S.tasks[t].depth
        S1 == [S EXCEPT !.results = (url :> PageRecord(url, content, html, depth)) @@ @]
    IN  IF Truthy(content) /\ Truthy(html) THEN
            IF ShouldExpand(depth) THEN
                IF extract_links_raises(html) THEN {Finish(S1, t, "raised")}
                ELSE {Spawn(S1, t, kept) :
                        kept \in links_slice(extract_links(url, html, extract_domain(start_url)))}
            ELSE {Finish(S1, t, "done")}
        ELSE {Finish(S, t, "done")}

\* A fetch_page that returns without leaving its "async with".
fetch_return_held(S, t, result, content, html) ==
    crawl_continue(
        SetLog(S, t[2], [LogOf(S, t[2]) EXCEPT !.result = result]),
        t, content, html)

\* fetch_page returns (content, html): the semaphore is released on the way out.
fetch_return(S, t, result, content, html) ==
    crawl_continue(
        release(SetLog(S, t[2], [LogOf(S, t[2]) EXCEPT !.result = result])),
        t, content, html)

\* The entry the store holds for a key that the gateway can read and decode.
HeldEntry(S, key) ==
    IF CacheClient(S) /\ S.store_up /\ key \in DOMAIN S.store
       /\ S.store[key].json = "dict"
    THEN S.store[key] ELSE NoEntry

\* A fetch_page that never takes the cached value.
CacheHit_never(S, cached) == FALSE

\* fetch_page's "if cached and config.CACHE_ENABLED".
CacheHit(S, cached) == cached.value # NoEntry /\ S.config.CACHE_ENABLED

\* fetch_page, from the semaphore acquired to the cache hit or the request sent.
fetch_begin(S, t) ==
    LET url == t[2]
        cache_key == get_key(url, "crawl")
        cached == CacheManager_get(S, cache_key)
        S1 == SetLog(S, url, [LogOf(S, url) EXCEPT !.held = HeldEntry(S, cache_key)])
    IN  IF cached.raised THEN fetch_return(S1, t, "fail", NoValue, NoValue)
        ELSE IF CacheHit(S, cached)
        THEN fetch_return(S1, t, "hit", cached.value.content, cached.value.html)
        ELSE {[SetLog(S1, url, [LogOf(S1, url) EXCEPT !.reqs = @ + 1])
                  EXCEPT !.tasks[t].pc = "fetching"]}

\* A fetch_page without its try/except: a failed request or an unparsable
\* body raises out of fetch_page and out of crawl_recursive.
fetch_end_unguarded(S, t, resp) ==
    LET url == t[2]
        html == Markup(url.path, "net")
        content == IF resp = "ok" THEN Text(url.path, "net") ELSE EmptyText
    IN  IF resp = "http404" THEN fetch_return(S, t, "fail", NoValue, NoValue)
        ELSE IF resp \in {"neterr", "parseerr"}
        THEN {Finish(release(SetLog(S, url, [LogOf(S, url) EXCEPT !.result = "fail"])),
                     t, "raised")}
        ELSE fetch_return(S, t, resp, content, html)

\* fetch_page, from the response to its return.
fetch_end(S, t, resp) ==
    LET url == t[2]
        cache_key == get_key(url, "crawl")
        html == Markup(url.path, "net")
        content == IF resp = "ok" THEN Text(url.path, "net") ELSE EmptyText
        put == IF S.config.CACHE_ENABLED
               THEN CacheManager_set(S, cache_key, Entry(content, html))
               ELSE Ret(NoEntry, FALSE, S.store)
    IN  IF resp \in {"http404", "neterr", "parseerr"}
        THEN fetch_return(S, t, "fail", NoValue, NoValue)
        ELSE IF put.raised THEN fetch_return(S, t, "fail", NoValue, NoValue)
        ELSE fetch_return([S EXCEPT !.store = put.store], t, resp, content, html)

\* ------------------------------------------- steps of the event loop
\* Each step is given as the set of states it can lead to from S (empty
\* when the step cannot be taken); the actions below commit one of them.

\* A crawl_recursive coroutine starts: the entry checks, visited_urls.add,
\* the call of fetch_page and the semaphore's acquire.  The ready queue is
\* first in, first out: the coroutines of an earlier gather start before
\* those of a later one.
enter(S, t) ==
    IF S.outcome # "running" \/ S.tasks[t].pc # "new" THEN {}
    ELSE IF \E k \in DOMAIN S.tasks :
               S.tasks[k].pc = "new" /\ S.tasks[k].turn < S.tasks[t].turn THEN {}
    ELSE LET url == t[2]
             S1 == SetLog(MarkVisited(S, url), url,
                          [LogOf(S, url) EXCEPT !.calls = @ + 1])
         IN  IF EntryRejects(S, url, S.tasks[t].depth)
             THEN {Finish(S, t, "done")}
             ELSE IF locked(S1)
             THEN {[S1 EXCEPT !.tasks[t].pc = "waitsem",
                              !.sem_waiters = Append(@, t)]}
             ELSE fetch_begin([S1 EXCEPT !.sem_value = @ - 1], t)

\* A waiter that release woke runs again and goes on into fetch_page's body.
resume(S, t) ==
    IF S.outcome # "running" \/ S.tasks[t].pc # "granted" THEN {}
    ELSE fetch_begin(
            wake_while_free([S EXCEPT !.sem_waiters = SelectSeq(@, LAMBDA w : w # t)]),
            t)

\* The response to a task's request arrives (or the request fails).
fetch_done(S, t) ==
    IF S.outcome # "running" \/ S.tasks[t].pc # "fetching" THEN {}
    ELSE UNION {fetch_end(S, t, resp) : resp \in Responses(site, t[2])}

Children(S, t) == {k \in DOMAIN S.tasks : k[1] = t[2]}

\* The gather of a task ends: with the first exception of a child, or when
\* every child has returned.
join(S, t) ==
    IF S.outcome # "running" \/ S.tasks[t].pc # "gather" THEN {}
    ELSE IF \E k \in Children(S, t) : S.tasks[k].pc = "raised"
    THEN {Finish(S, t, "raised")}
    ELSE IF \A k \in Children(S, t) : S.tasks[k].pc = "done"
    THEN {Finish(S, t, "done")}
    ELSE {}

\* ------------------------------------------------------------- actions
Enter(t) == \E S2 \in enter(Cur, t) : Commit(S2)

Resume(t) == \E S2 \in resume(Cur, t) : Commit(S2)

FetchDone(t) == \E S2 \in fetch_done(Cur, t) : Commit(S2)

Join(t) == \E S2 \in join(Cur, t) : Commit(S2)

\* The keys another client of the gateway uses.
ClientKeys == {get_key(Url(SeedHost, p, ""), "crawl") : p \in {0, 1}}

\* Another client calls the gateway once the crawl has ended (the program
\* runs its stages one after the other).
CacheCall(op, key) ==
    /\ outcome # "running"
    /\ LET r == CASE op = "get" -> CacheManager_get(Cur, key)
                  [] op = "set" -> CacheManager_set(Cur, key,
                                      Entry(Text(0, "client"), Markup(0, "client")))
                  [] OTHER -> CacheManager_delete(Cur, key)
       IN  /\ call' = [op |-> op, raised |-> r.raised, ok |-> r.ok, value |-> r.value]
           /\ store' = r.store
    /\ UNCHANGED <<params, visited_urls, results, tasks, sem_value, sem_waiters,
                   outcome, log, pvars>>

\* ---------------------------------------------------------------- Init
NoCall == [op |-> "none", raised |-> FALSE, ok |-> FALSE, value |-> NoEntry]

\* The default configuration: CACHE_ENABLED, no REDIS_URL in the environment.
NoCache == [CACHE_ENABLED |-> TRUE, CACHE_REDIS_URL |-> FALSE]

WithCache == [CACHE_ENABLED |-> TRUE, CACHE_REDIS_URL |-> TRUE]

CacheOff == [CACHE_ENABLED |-> FALSE, CACHE_REDIS_URL |-> TRUE]

\* A store filled by an earlier run: an entry for page 1, an entry without
\* text for page 3, undecodable text under the key of page 2, and an entry
\* with text and no markup under the key of file:///5.
Prepopulated ==
    (get_key(Url(SeedHost, 1, ""), "crawl") :> Entry(Text(1, "old"), Markup(1, "old")))
    @@ (get_key(Url(SeedHost, 2, ""), "crawl") :> Garbage)
    @@ (get_key(Url(SeedHost, 3, ""), "crawl") :> Entry(EmptyText, Markup(3, "old")))
    @@ (get_key(Url("", 5, ""), "crawl") :> Entry(Text(5, "old"), NoValue))

\* AsyncCrawler.__init__ and __aenter__, and the call of crawl_documentation.
InitCrawl ==
    /\ visited_urls = {}
    /\ results = << >>
    /\ tasks = (Root :> [pc |-> "new", depth |-> 0, turn |-> 0])
    /\ sem_value = SemaphoreSlots
    /\ sem_waiters = << >>
    /\ outcome = "running"
    /\ log = << >>
    /\ call = NoCall
    /\ NoRun

InitDocs ==
    /\ site = "docs"
    /\ start_url \in {Url(SeedHost, 0, ""), Url(SeedHost, 0, "/")}
    /\ max_depth \in -1..MaxDepthLimit
    /\ max_pages \in 0..MaxPagesLimit
    /\ config = NoCache
    /\ store_up = TRUE
    /\ store = << >>
    /\ InitCrawl

InitWide ==
    /\ site = "wide"
    /\ start_url = Url(SeedHost, 0, "")
    /\ max_depth = 1
    /\ max_pages = 2
    /\ config = NoCache
    /\ store_up = TRUE
    /\ store = << >>
    /\ InitCrawl

InitHub ==
    /\ site = "hub"
    /\ start_url = Url(SeedHost, 0, "")
    /\ max_depth = 1
    /\ max_pages = MaxPagesLimit
    /\ config = NoCache
    /\ store_up = TRUE
    /\ store = << >>
    /\ InitCrawl

InitCache ==
    /\ site = "docs"
    /\ start_url = Url(SeedHost, 0, "")
    /\ max_depth = MaxDepthLimit
    /\ max_pages = MaxPagesLimit
    /\ config \in {WithCache, CacheOff}
    /\ store_up \in BOOLEAN
    /\ store \in {<< >>, Prepopulated}
    /\ InitCrawl

\* The diamond site, crawled as deep as its longer path or one less, with
\* the default page cap.
InitDiamond ==
    /\ site = "diamond"
    /\ start_url = Url(SeedHost, 0, "")
    /\ max_depth \in {MaxDepthLimit, MaxDepthLimit + 1}
    /\ max_pages = DefaultMaxPages
    /\ config = NoCache
    /\ store_up = TRUE
    /\ store = << >>
    /\ InitCrawl

\* The many site: the index page and the crawls started from it.
InitMany ==
    /\ site = "many"
    /\ start_url = Url(SeedHost, 0, "")
    /\ max_depth = 1
    /\ max_pages = 1
    /\ config = NoCache
    /\ store_up = TRUE
    /\ store = << >>
    /\ InitCrawl

Init == InitDocs \/ InitWide \/ InitHub \/ InitDiamond \/ InitMany \/ InitCache

Step ==
    \/ \E t \in DOMAIN tasks : Enter(t)
    \/ \E t \in DOMAIN tasks : Resume(t)
    \/ \E t \in DOMAIN tasks : FetchDone(t)
    \/ \E t \in DOMAIN tasks : Join(t)

Next ==
    \/ Step
    \/ \E op \in {"get", "set", "delete"}, key \in ClientKeys : CacheCall(op, key)

Spec == Init /\ [][Next]_vars

\* The crawls whose end is checked: the hub site, where tasks wait for the
\* semaphore, and the docs site and its cycles at the largest depth and page
\* cap, with and without a cache.
InitLive ==
    \/ InitHub
    \/ InitDocs /\ max_depth = MaxDepthLimit /\ max_pages = MaxPagesLimit
    \/ InitCache

\* The event loop runs every ready coroutine, and every request is answered
\* or fails.
FairSpec == InitLive /\ [][Next]_vars /\ WF_vars(Step)

\* ============================================================ pipeline
\* -------------------------------------------------------------- strings
\* A Python string is modelled by its whitespace-separated chunks and the
\* whitespace before the first and after the last of them.  A chunk is a
\* word, given by its lowercase spelling w, its casing cs ("l" lowercase,
\* "T" title case, "U" uppercase), the number n of its characters, and the
\* punctuation mark p that follows it without a space ("" for none).  The
\* chunks of a string are one space apart, as clean_text leaves them.
Chunk(w, cs, n, p) == [w |-> w, cs |-> cs, n |-> n, p |-> p]

\* A lowercase word without punctuation.
Wd(w, n) == Chunk(w, "l", n, "")

Str(lead, body, trail) == [lead |-> lead, body |-> body, trail |-> trail]

\* A string without whitespace around it.
Plain(body) == Str(0, body, 0)

EmptyStr == Plain(<< >>)

\* A piece of literal text of n characters.
Lit(text, n) == Plain(<< Chunk(text, "-", n, "") >>)

ChunkLen(c) == c.n + (IF c.p = "" THEN 0 ELSE 1)

RECURSIVE BodyLen(_)
BodyLen(b) ==
    IF b = << >> THEN 0
    ELSE IF Len(b) = 1 THEN ChunkLen(b[1])
    ELSE ChunkLen(b[1]) + 1 + BodyLen(Tail(b))

\* len(s)
StrLen(s) == s.lead + BodyLen(s.body) + s.trail

\* s.strip()
strip(s) == Str(0, s.body, 0)

\* A strip that leaves the string as it is.
clean_text_nostrip(s) == s

\* clean_text(s): whitespace runs collapsed, then strip().
clean_text(s) == IF StrLen(s) = 0 THEN EmptyStr ELSE strip(s)

LowerBody(b) == [i \in DOMAIN b |-> [b[i] EXCEPT !.cs = IF @ = "-" THEN "-" ELSE "l"]]

\* s.lower()
lower(s) == [s EXCEPT !.body = LowerBody(s.body)]

\* s.title(): every word capitalised.
title(s) ==
    [s EXCEPT !.body = [i \in DOMAIN s.body |->
                           [s.body[i] EXCEPT !.cs = IF @ = "-" THEN "-" ELSE "T"]]]

\* "t in s" for the chunks of two strings: t's chunks are consecutive chunks
\* of s, the last one possibly followed by a punctuation mark in s.
Contains(sb, tb) ==
    \/ tb = << >>
    \/ \E i \in 0..(Len(sb) - Len(tb)) :
          /\ \A j \in 1..(Len(tb) - 1) : sb[i + j] = tb[j]
          /\ LET a == sb[i + Len(tb)]
                 b == tb[Len(tb)]
             IN  [a EXCEPT !.p = ""] = [b EXCEPT !.p = ""] /\ b.p \in {"", a.p}

\* s[:k] for a string without leading whitespace: the chunks that fit, the
\* last one cut where the k characters end.
RECURSIVE TakeBody(_, _)
TakeBody(b, k) ==
    IF b = << >> \/ k <= 0 THEN [body |-> << >>, trail |-> 0]
    ELSE LET c == b[1]
         IN  IF k < ChunkLen(c)
             THEN [body |-> << [c EXCEPT !.n = IF k < c.n THEN k ELSE c.n, !.p = ""] >>,
                   trail |-> 0]
             ELSE IF Len(b) = 1 \/ k = ChunkLen(c)
             THEN [body |-> << c >>, trail |-> 0]
             ELSE IF k = ChunkLen(c) + 1
             THEN [body |-> << c >>, trail |-> 1]
             ELSE LET r == TakeBody(Tail(b), k - ChunkLen(c) - 1)
                  IN  [body |-> << c >> \o r.body, trail |-> r.trail]

Slice(s, k) ==
    LET r == TakeBody(s.body, k)
    IN  Str(0, r.body, r.trail)

\* lst[:k]
FirstN(seq, k) == SubSeq(seq, 1, IF Len(seq) < k THEN Len(seq) ELSE k)

\* " ".join(strings) for strings without whitespace around them.
RECURSIVE JoinBodies(_)
JoinBodies(bodies) ==
    IF bodies = << >> THEN << >> ELSE bodies[1] \o JoinBodies(Tail(bodies))

\* len of a string built from pieces put one after the other (an f-string,
\* or "+"): such a string is the sequence of its pieces.
RECURSIVE CatLen(_)
CatLen(pieces) ==
    IF pieces = << >> THEN 0 ELSE StrLen(pieces[1]) + CatLen(Tail(pieces))

\* --------------------------------------------------- relevant sentences
\* re.split(r'(?<=[.!?])\s+', text): the text is cut after every chunk that
\* ends with ".", "!" or "?" and is followed by whitespace.
RECURSIVE Sentences(_, _)
Sentences(b, cur) ==
    IF b = << >> THEN (IF cur = << >> THEN << >> ELSE << cur >>)
    ELSE IF b[1].p \in {".", "!", "?"} /\ Len(b) > 1
    THEN << Append(cur, b[1]) >> \o Sentences(Tail(b), << >>)
    ELSE Sentences(Tail(b), Append(cur, b[1]))

\* extract_relevant_sentences(topic, text): the first five sentences that
\* contain the lowercased topic or share two words with it.
extract_relevant_sentences(topic, text) ==
    LET sentences == IF text.body = << >> THEN << << >> >>
                     ELSE Sentences(text.body, << >>)
        WordSet(b) == {b[i] : i \in DOMAIN b}
        topic_words == WordSet(LowerBody(topic.body))
        relevant(s) ==
            \/ Contains(LowerBody(s), LowerBody(topic.body))
            \/ Cardinality(topic_words \cap WordSet(LowerBody(s))) >= 2
    IN  FirstN(SelectSeq(sentences, relevant), 5)

\* --------------------------------------------------------- descriptions
DescriptionCap == 500
SubmoduleDescriptionCap == 200
MAX_SUBMODULES_PER_MODULE == 10
LongContent == 800
LongDescription == 100

\* The length of the text the generative backend answers with.
ResponseLen == 120

\* The sentences a description is made of: those of the module's content
\* that are relevant to the name, or else those of the whole corpus.
DescriptionSentences(name, content, context) ==
    LET own == extract_relevant_sentences(name, content)
    IN  IF own = << >> THEN extract_relevant_sentences(name, context) ELSE own

\* generate_description_algorithmic: f"{name}: " followed by the first three
\* sentences joined and cut to 500 characters, or the templated sentence.
generate_description_algorithmic(module, context) ==
    LET name == module.name
        sentences == DescriptionSentences(name, module.content, context)
    IN  IF sentences # << >>
        THEN << name, Lit(": ", 2),
                Slice(Plain(JoinBodies(FirstN(sentences, 3))), DescriptionCap) >>
        ELSE << Lit("Module related to ", 18), name, Lit(" functionality.", 15) >>

\* generate_submodule_description: the first two sentences joined and cut to
\* 200 characters, or the templated sentence.
generate_submodule_description(submodule, content, context) ==
    LET sentences == DescriptionSentences(submodule, content, context)
    IN  IF sentences # << >>
        THEN << Slice(Plain(JoinBodies(FirstN(sentences, 2))),
                      SubmoduleDescriptionCap) >>
        ELSE << Lit("Functionality related to ", 25), submodule, Lit(".", 1) >>

\* ----------------------------------------------------------- submodules
\* The cue words of the three patterns, in the order they are tried.
Patterns == << << "includes" >>, << "such", "as" >>, << "including" >> >>

\* re.findall(p, content, re.IGNORECASE): the groups of the matches found
\* from chunk i on, each search starting after the previous match.  A
\* pattern's cue stands at chunk i when its words (in any casing), each
\* followed by whitespace, are there with text after them; the group
\* (.+?)(?:\.|$) runs to the first "." or to the end of the text.
RECURSIVE FindAll(_, _, _)
FindAll(b, kw, i) ==
    LET CueAt ==
            /\ i + Len(kw) <= Len(b)
            /\ \A j \in 1..Len(kw) : b[i + j - 1].w = kw[j] /\ b[i + j - 1].p = ""
        GroupEnd(s) ==
            LET dots == {j \in s..Len(b) : b[j].p = "."}
            IN  IF dots = {} THEN Len(b) ELSE CHOOSE j \in dots : \A k \in dots : j <= k
        Group(s, e) ==
            [j \in 1..(e - s + 1) |->
                IF b[s + j - 1].p = "." THEN [b[s + j - 1] EXCEPT !.p = ""]
                ELSE b[s + j - 1]]
    IN  IF i + Len(kw) > Len(b) THEN << >>
        ELSE IF CueAt
        THEN LET s == i + Len(kw)
                 e == GroupEnd(s)
             IN  << Group(s, e) >> \o FindAll(b, kw, e + 1)
        ELSE FindAll(b, kw, i + 1)

\* re.split(r',|\band\b|\bor\b', match): the match is cut at every comma
\* and at the lowercase words "and" and "or" (which carry no punctuation
\* other than a comma in the texts modelled).
RECURSIVE SplitItems(_, _)
SplitItems(g, cur) ==
    IF g = << >> THEN << cur >>
    ELSE LET c == g[1]
         IN  IF c.w \in {"and", "or"} /\ c.cs = "l"
             THEN IF c.p = ","
                  THEN << cur, << >> >> \o SplitItems(Tail(g), << >>)
                  ELSE << cur >> \o SplitItems(Tail(g), << >>)
             ELSE IF c.p = ","
             THEN << Append(cur, [c EXCEPT !.p = ""]) >> \o SplitItems(Tail(g), << >>)
             ELSE SplitItems(Tail(g), Append(cur, c))

RECURSIVE Flatten(_)
Flatten(seqs) == IF seqs = << >> THEN << >> ELSE seqs[1] \o Flatten(Tail(seqs))

\* list(dict.fromkeys(found)): the first occurrence of every element.
RECURSIVE Dedupe(_)
Dedupe(seq) ==
    IF seq = << >> THEN << >>
    ELSE << seq[1] >> \o Dedupe(SelectSeq(Tail(seq), LAMBDA x : x # seq[1]))

\* extract_potential_submodules: of every match, the items longer than 3
\* characters once stripped are kept, title-cased.
extract_potential_submodules(content) ==
    LET KeptItems(match) ==
            LET items == SelectSeq(SplitItems(match, << >>), LAMBDA i : BodyLen(i) > 3)
            IN  [k \in DOMAIN items |-> title(Plain(items[k]))]
        matches(p) == FindAll(content.body, Patterns[p], 1)
        found == Flatten([p \in DOMAIN Patterns |->
                    Flatten([m \in DOMAIN matches(p) |-> KeptItems(matches(p)[m])])])
    IN  Dedupe(found)

\* A Python dict is modelled by its items in insertion order.
DictValue(d, k, default) ==
    IF \E i \in DOMAIN d : d[i][1] = k THEN d[CHOOSE i \in DOMAIN d : d[i][1] = k][2] ELSE default

\* d[k] = v
DictSet(d, k, v) ==
    IF \E i \in DOMAIN d : d[i][1] = k
    THEN [i \in DOMAIN d |-> IF d[i][1] = k THEN << k, v >> ELSE d[i]]
    ELSE Append(d, << k, v >>)

\* extract_submodules without the cap on the candidates.
SubmoduleCandidates_all(content) == extract_potential_submodules(content)

\* candidates[:config.MAX_SUBMODULES_PER_MODULE]
SubmoduleCandidates(content) ==
    FirstN(extract_potential_submodules(content), MAX_SUBMODULES_PER_MODULE)

\* The loop of extract_submodules: submodules[name] = desc for every name
\* whose description is not empty.  The names are those dict.fromkeys
\* left, each once, so every assignment adds an item.
FillSubmodules(names, content, context) ==
    LET items == [i \in DOMAIN names |->
                    << names[i],
                       generate_submodule_description(names[i], content, context) >>]
    IN  SelectSeq(items, LAMBDA item : CatLen(item[2]) > 0)

extract_submodules(module, context) ==
    FillSubmodules(SubmoduleCandidates(module.content), module.content, context)

\* ----------------------------------------------------------- confidence
\* A calculate_confidence whose thresholds are inclusive.
calculate_confidence_inclusive(module, description) ==
    LET score == 5 + (IF StrLen(module.content) >= LongContent THEN 2 ELSE 0)
                   + (IF CatLen(description) >= LongDescription THEN 1 ELSE 0)
                   + (IF module.source = "title" THEN 1 ELSE 0)
    IN  IF score < 10 THEN score ELSE 10

\* calculate_confidence, in tenths.
calculate_confidence(module, description) ==
    LET score == 5 + (IF StrLen(module.content) > LongContent THEN 2 ELSE 0)
                   + (IF CatLen(description) > LongDescription THEN 1 ELSE 0)
                   + (IF module.source = "title" THEN 1 ELSE 0)
    IN  IF score < 10 THEN score ELSE 10

\* ----------------------------------------------------------- the parser
\* A page's markup is modelled by what the parser reads from it: the text of
\* its <title>, its heading elements in document order (level, text, and
\* the text of the siblings that follow), and the items of its breadcrumb
\* element.  Markup the HTML parser cannot take is [kind |-> "none"].
Dom(t, hs, crumbs) == [kind |-> "dom", title |-> t, headings |-> hs, crumbs |-> crumbs]

Heading(level, text, body) == [level |-> level, text |-> text, body |-> body]

\* The names bound in parser.py's module namespace.
ParserGlobals ==
    {"re", "Dict", "List", "Optional", "Tuple", "urlparse", "BeautifulSoup",
     "config", "clean_text", "extract_headings_from_html", "DocumentationParser"}

NonEmpty(s) == StrLen(s) > 0

extract_breadcrumbs(html) ==
    LET texts == [i \in DOMAIN html.crumbs |-> clean_text(html.crumbs[i])]
    IN  SelectSeq(texts, LAMBDA t :
            NonEmpty(t) /\ lower(t) \notin {Plain(<< Wd("home", 4) >>),
                                            Plain(<< Wd("main", 4) >>)})

extract_headings_from_html(html) ==
    [level \in {"h1", "h2", "h3"} |->
        LET els == SelectSeq(html.headings, LAMBDA el : el.level = level)
            texts == [i \in DOMAIN els |-> clean_text(els[i].text)]
        IN  SelectSeq(texts, NonEmpty)]

extract_sections(html) ==
    [i \in DOMAIN html.headings |->
        [level |-> html.headings[i].level,
         title |-> clean_text(html.headings[i].text),
         content |-> clean_text(html.headings[i].body)]]

\* parse_page raises on markup the HTML parser cannot take.
ParseRaises(data) == data.html.kind # "dom"

parse_page(url, html, content) ==
    [url |-> url,
     metadata |-> [title |-> clean_text(html.title),
                   breadcrumbs |-> extract_breadcrumbs(html)],
     structure |-> [headings |-> extract_headings_from_html(html),
                    sections |-> extract_sections(html)],
     content |-> content]

\* parse_multiple_pages: the loop over the pages, from the pages left and
\* the pages parsed so far.  The handler of a page that raises evaluates
\* logger.error(...), which raises NameError when parser.py binds no logger.
RECURSIVE ParseLoop(_, _)
ParseLoop(pages, parsed) ==
    IF pages = << >> THEN [parsed_pages |-> parsed, raised |-> "none"]
    ELSE LET data == pages[1]
         IN  IF ParseRaises(data)
             THEN IF "logger" \in ParserGlobals
                  THEN ParseLoop(Tail(pages), parsed)
                  ELSE [parsed_pages |-> << >>, raised |-> "NameError"]
             ELSE ParseLoop(Tail(pages),
                            Append(parsed, parse_page(data.url, data.html, data.content)))

parse_multiple_pages(pages) == ParseLoop(pages, << >>)

\* ----------------------------------------------------------- candidates
Candidate(name, source, content, url) ==
    [name |-> name, source |-> source, content |-> content, url |-> url]

\* The elements of seq at the indices in idx, in order.
SubSeqAt(seq, idx) ==
    LET n == Cardinality(idx)
        at == [k \in 1..n |-> CHOOSE i \in idx : Cardinality({j \in idx : j < i}) = k - 1]
    IN  [k \in 1..n |-> seq[at[k]]]

combine_content(pages) ==
    Plain(Flatten([i \in DOMAIN pages |->
                      pages[i].metadata.title.body \o pages[i].content.body]))

get_section_content(heading, page) ==
    LET sections == page.structure.sections
        hit == {i \in DOMAIN sections : lower(sections[i].title) = lower(heading)}
    IN  IF hit = {} THEN page.content
        ELSE sections[CHOOSE i \in hit : \A j \in hit : i <= j].content

\* "name and len(name) > 3"
NameKept(name) == NonEmpty(name) /\ StrLen(name) > 3

\* The candidates of one page: its title, its h1, h2 and h3 headings, its
\* breadcrumbs.
PageCandidates(page) ==
    LET md == page.metadata
        t == IF NameKept(md.title)
             THEN << Candidate(md.title, "title", page.content, page.url) >>
             ELSE << >>
        hs(level) ==
            LET kept == SelectSeq(page.structure.headings[level], NameKept)
            IN  [k \in DOMAIN kept |->
                    Candidate(kept[k], "heading_" \o level,
                              get_section_content(kept[k], page), page.url)]
        crumbs == [i \in DOMAIN md.breadcrumbs |->
                      Candidate(md.breadcrumbs[i], "breadcrumb_" \o ToString(i - 1),
                                page.content, page.url)]
    IN  t \o hs("h1") \o hs("h2") \o hs("h3")
          \o SelectSeq(crumbs, LAMBDA c : NameKept(c.name))

extract_candidate_modules(pages) ==
    Flatten([i \in DOMAIN pages |-> PageCandidates(pages[i])])

\* ----------------------------------------------------------- clustering
\* Words of TfidfVectorizer's English stop list that occur in the names
\* modelled.
StopWords == {"about", "more", "the", "and", "or", "such", "as", "us", "all"}

\* The vocabulary TfidfVectorizer(stop_words="english") builds from the
\* names: their lowercased words of two characters or more that are not stop
\* words.
Vocabulary(names) ==
    UNION {{names[i].body[j].w : j \in {k \in DOMAIN names[i].body :
                                          /\ names[i].body[k].n >= 2
                                          /\ names[i].body[k].w \notin StopWords}} :
           i \in DOMAIN names}

\* The fallback path of cluster_modules.  On an empty vocabulary
\* fit_transform raises ValueError and the handler returns the candidates.
cluster_fallback(candidates) ==
    LET names == [i \in DOMAIN candidates |-> candidates[i].name]
        firsts == {i \in DOMAIN names :
                      \A j \in 1..(i - 1) : lower(names[j]) # lower(names[i])}
    IN  IF candidates = << >> THEN << >>
        ELSE IF Vocabulary(names) = {} THEN candidates
        ELSE SubSeqAt(candidates, firsts)

priority(source) ==
    CASE source = "title" -> 0
      [] source = "heading_h1" -> 1
      [] source = "heading_h2" -> 2
      [] source = "heading_h3" -> 3
      [] OTHER -> 99

\* list.sort(key=...) of choose_main_module: a stable sort by the key
\* (priority, -len(content)), tuples compared item by item.
RECURSIVE Sorted(_)
Sorted(seq) ==
    IF seq = << >> THEN << >>
    ELSE LET SortKey(x) == << priority(x.source), 0 - StrLen(x.content) >>
             KeyLess(a, b) == a[1] < b[1] \/ (a[1] = b[1] /\ a[2] < b[2])
             front == Sorted(SubSeq(seq, 1, Len(seq) - 1))
             last == seq[Len(seq)]
             pos == Cardinality({i \in DOMAIN front :
                                    ~KeyLess(SortKey(last), SortKey(front[i]))})
         IN  SubSeq(front, 1, pos) \o << last >> \o SubSeq(front, pos + 1, Len(front))

\* A choose_main_module that returns the first member.
choose_main_module_first(cluster) == cluster[1]

choose_main_module(cluster) == Sorted(cluster)[1]

\* Clusters that take the noise label for a cluster like the others.
ClustersOf_noise(candidates, ls) ==
    LET used == Dedupe(ls)
    IN  [k \in DOMAIN used |->
            SubSeqAt(candidates, {i \in DOMAIN candidates : ls[i] = used[k]})]

\* The clusters of the candidates under the labels DBSCAN gave them (-1 is
\* noise), in the order of the first member of each.
ClustersOf(candidates, ls) ==
    LET used == Dedupe(SelectSeq(ls, LAMBDA l : l # -1))
    IN  [k \in DOMAIN used |->
            SubSeqAt(candidates, {i \in DOMAIN candidates : ls[i] = used[k]})]

\* The embedding path of cluster_modules.
cluster_embedded(candidates, ls) ==
    LET cl == ClustersOf(candidates, ls)
    IN  [k \in DOMAIN cl |-> choose_main_module(cl[k])]

\* ------------------------------------------------- generate_descriptions
\* generate_description_with_llm: the prompt and the chain are built, then,
\* inside the try, the chain is run and its response stripped; an exception
\* inside the try gives the heuristic description.  failure is the step
\* that raises for this module, or "none".
generate_description_with_llm(module, context, failure) ==
    IF failure \in {"PromptTemplate", "LLMChain"}
    THEN [raised |-> failure, description |-> << >>]
    ELSE IF failure \in {"run", "strip"}
    THEN [raised |-> "none",
          description |-> generate_description_algorithmic(module, context)]
    ELSE [raised |-> "none", description |-> << Lit("response", ResponseLen) >>]

\* generate_descriptions: self.use_llm is use_llm and LLM_AVAILABLE, self.llm
\* is set when that holds and an API key is configured.  An exception a
\* module's description raises leaves the loop.
generate_descriptions(mods, all_content, setting) ==
    LET on == setting.use_llm /\ setting.LLM_AVAILABLE /\ setting.OPENAI_API_KEY
        described(i) ==
            IF on
            THEN generate_description_with_llm(
                     mods[i], all_content,
                     IF setting.at = i THEN setting.fails ELSE "none")
            ELSE [raised |-> "none",
                  description |-> generate_description_algorithmic(mods[i], all_content)]
        bad == {i \in DOMAIN mods : described(i).raised # "none"}
    IN  IF bad # {}
        THEN [raised |-> described(CHOOSE i \in bad : \A j \in bad : i <= j).raised,
              result |-> << >>]
        ELSE [raised |-> "none",
              result |->
                [i \in DOMAIN mods |->
                    [module |-> mods[i].name,
                     description |-> described(i).description,
                     submodules |-> extract_submodules(mods[i], all_content),
                     confidence |-> calculate_confidence(mods[i],
                                                         described(i).description)]]]

format_output(mods) ==
    [i \in DOMAIN mods |->
        [module |-> mods[i].module,
         Description |-> mods[i].description,
         Submodules |-> mods[i].submodules,
         confidence_score |-> mods[i].confidence]]

\* ----------------------------------------------------------------- JSON
\* A JSON text is modelled by the value it denotes: a string, a number, an
\* array of values, or an object given by its members in order.
JString(s) == [t |-> "string", v |-> s]
JArray(items) == [t |-> "array", v |-> items]
JObject(members) == [t |-> "object", v |-> members]

\* generate_json: per module the keys module, Description and Submodules,
\* and with include_metadata a metadata object holding the confidence score.
generate_json(mods, with_metadata) ==
    LET JNumber(x) == [t |-> "number", v |-> x]
        DumpStrDict(d) == JObject([k \in DOMAIN d |-> << d[k][1], JString(d[k][2]) >>])
    IN
    JArray([i \in DOMAIN mods |->
        JObject(<< << "module", JString(mods[i].module) >>,
                   << "Description", JString(mods[i].Description) >>,
                   << "Submodules", DumpStrDict(mods[i].Submodules) >> >>
                \o (IF with_metadata
                    THEN << << "metadata",
                               JObject(<< << "confidence_score",
                                             JNumber(mods[i].confidence_score) >>,
                                          << "source_urls", JArray(<< >>) >>,
                                          << "extraction_timestamp",
                                             JString("timestamp") >> >>) >> >>
                    ELSE << >>))])

\* json.loads: arrays become lists, objects become dicts (a repeated key
\* keeps its last value), strings and numbers their values.
RECURSIVE json_loads(_)
RECURSIVE LoadMembers(_, _)
LoadMembers(members, d) ==
    IF members = << >> THEN d
    ELSE LoadMembers(Tail(members), DictSet(d, members[1][1], json_loads(members[1][2])))

json_loads(j) ==
    CASE j.t = "array" -> [i \in DOMAIN j.v |-> json_loads(j.v[i])]
      [] j.t = "object" -> LoadMembers(j.v, << >>)
      [] OTHER -> j.v

\* -------------------------------------------------------- pipeline runs
\* The labels DBSCAN(min_samples=2) can give n candidates: every cluster has
\* two members or more, and clusters are numbered in the order of their
\* first member.
ValidLabels(n) ==
    {l \in [1..n -> -1..(MaxClusters - 1)] :
        \A c \in 0..(MaxClusters - 1) :
            LET members == {i \in 1..n : l[i] = c}
            IN  /\ Cardinality(members) # 1
                /\ (c > 0 /\ members # {}) =>
                      \E i \in 1..n : l[i] = c - 1 /\ \A j \in members : i < j}

\* parser.parse_multiple_pages(pages_data)
ParseMultiplePages ==
    /\ pc = "parse"
    /\ LET r == parse_multiple_pages(pages_data)
       IN  /\ parsed_pages' = r.parsed_pages
           /\ trouble' = r.raised
           /\ pc' = IF r.raised = "none" THEN "extract" ELSE "raised"
    /\ UNCHANGED <<cvars, pages_data, embedder, llm, include_metadata, candidate_modules,
                   labels, clusters, clustered_modules, modules, json_text>>

\* analyze_documentation: combine_content and extract_candidate_modules.
ExtractCandidates ==
    /\ pc = "extract"
    /\ candidate_modules' = extract_candidate_modules(parsed_pages)
    /\ pc' = "cluster"
    /\ UNCHANGED <<cvars, pages_data, embedder, llm, include_metadata, parsed_pages,
                   labels, clusters, clustered_modules, modules, json_text, trouble>>

\* analyze_documentation: cluster_modules, on the embedding path with the
\* labels the clustering gives.
ClusterModules ==
    /\ pc = "cluster"
    /\ IF candidate_modules = << >>
       THEN labels' = << >> /\ clusters' = << >> /\ clustered_modules' = << >>
       ELSE IF embedder
       THEN \E ls \in ValidLabels(Len(candidate_modules)) :
               /\ labels' = ls
               /\ clusters' = ClustersOf(candidate_modules, ls)
               /\ clustered_modules' = cluster_embedded(candidate_modules, ls)
       ELSE /\ labels' = << >>
            /\ clusters' = << >>
            /\ clustered_modules' = cluster_fallback(candidate_modules)
    /\ pc' = "describe"
    /\ UNCHANGED <<cvars, pages_data, embedder, llm, include_metadata, parsed_pages,
                   candidate_modules, modules, json_text, trouble>>

\* analyze_documentation: generate_descriptions and format_output.
GenerateDescriptions ==
    /\ pc = "describe"
    /\ LET r == generate_descriptions(clustered_modules,
                                      combine_content(parsed_pages), llm)
       IN  /\ modules' = format_output(r.result)
           /\ trouble' = r.raised
           /\ pc' = IF r.raised = "none" THEN "output" ELSE "raised"
    /\ UNCHANGED <<cvars, pages_data, embedder, llm, include_metadata, parsed_pages,
                   candidate_modules, labels, clusters, clustered_modules, json_text>>

\* OutputGenerator.generate_json(modules, include_metadata)
GenerateJson ==
    /\ pc = "output"
    /\ \E m \in BOOLEAN :
          /\ include_metadata' = m
          /\ json_text' = generate_json(modules, m)
    /\ pc' = "done"
    /\ UNCHANGED <<cvars, pages_data, embedder, llm, parsed_pages, candidate_modules,
                   labels, clusters, clustered_modules, modules, trouble>>

\* --------------------------------------------------- the pages of a run
Cap(w, n) == Chunk(w, "T", n, "")

Up(w, n) == Chunk(w, "U", n, "")

With(c, p) == [c EXCEPT !.p = p]

\* "Installation includes downloading, configuring, and testing the package."
\* A start page: padded title, an h1 that repeats the title in capitals, two
\* h2 sections, breadcrumbs "Home", "Docs" and "API".
PageStart ==
    LET InstallationText ==
            << Cap("installation", 12), Wd("includes", 8),
               With(Wd("downloading", 11), ","), With(Wd("configuring", 11), ","),
               Wd("and", 3), Wd("testing", 7), Wd("the", 3),
               With(Wd("package", 7), ".") >>
        ConfigurationText == << Cap("configuration", 13), With(Wd("guide", 5), ".") >>
    IN
    [url |-> Url(SeedHost, 0, ""),
     html |-> Dom(Str(1, << Cap("getting", 7), Cap("started", 7) >>, 1),
                  << Heading("h1", Plain(<< Up("getting", 7), Up("started", 7) >>),
                             Plain(<< Cap("welcome", 7), With(Wd("aboard", 6), ".") >>)),
                     Heading("h2", Plain(<< Cap("configuration", 13) >>),
                             Plain(ConfigurationText)),
                     Heading("h2", Plain(<< Cap("installation", 12) >>),
                             Str(1, InstallationText, 0)) >>,
                  << Plain(<< Cap("home", 4) >>), Plain(<< Cap("docs", 4) >>),
                     Str(0, << Up("api", 3) >>, 1) >>),
     content |-> Plain(<< Cap("getting", 7), Wd("started", 7), With(Wd("guide", 5), ".") >>
                       \o InstallationText \o ConfigurationText)]

\* A page whose names are stop words only.
PageAbout ==
    [url |-> Url(SeedHost, 1, ""),
     html |-> Dom(Plain(<< Cap("about", 5) >>),
                  << Heading("h1", Plain(<< Up("about", 5) >>),
                             Plain(<< Cap("about", 5), With(Wd("us", 2), ".") >>)) >>,
                  << >>),
     content |-> Plain(<< Cap("about", 5), With(Wd("us", 2), ".") >>)]

\* A page with names of three characters once stripped, and two h1
\* headings of which the second has the longer section.
PageShort ==
    [url |-> Url(SeedHost, 2, ""),
     html |-> Dom(Str(2, << Up("api", 3) >>, 2),
                  << Heading("h1", Str(1, << Up("faq", 3) >>, 0), EmptyStr),
                     Heading("h1", Plain(<< Cap("overview", 8) >>), EmptyStr),
                     Heading("h1", Plain(<< Cap("usage", 5) >>),
                             Plain(<< Cap("usage", 5), With(Wd("tips", 4), ".") >>)),
                     Heading("h3", Str(0, << Cap("tips", 4) >>, 3), EmptyStr),
                     Heading("h2", Str(4, << >>, 0), EmptyStr) >>,
                  << Plain(<< Cap("main", 4) >>), Str(1, << Cap("guides", 6) >>, 1) >>),
     content |-> Plain(<< Cap("usage", 5), With(Wd("tips", 4), ".") >>)]

\* The lengths of the long word of PageLong: around the lengths at which
\* the description passes 100 and 500 characters and the content 800.
Runs == {72, 73, 472, 473, 786, 787}

\* A page whose content is one sentence about its title with a word of
\* run characters: "Installation xxxx."
PageLong(run) ==
    [url |-> Url(SeedHost, 3, ""),
     html |-> Dom(Plain(<< Cap("installation", 12) >>), << >>, << >>),
     content |-> Plain(<< Cap("installation", 12), With(Wd("x", run), ".") >>)]

\* "item1,", "item2,", ...
\* A page that enumerates more items than a module keeps: "Platform
\* includes users, Users, USERS, roles and api, item1, ..., itemK, done.
\* Formats such as json, yaml or Backup Plans! Including roles, audit logs"
PageEnum ==
    LET EnumWords(k) ==
            [i \in 1..k |-> With(Wd("item" \o ToString(i), IF i < 10 THEN 5 ELSE 6), ",")]
    IN
    [url |-> Url(SeedHost, 4, ""),
     html |-> Dom(Plain(<< Cap("platform", 8) >>), << >>, << >>),
     content |-> Plain(
        << Cap("platform", 8), Wd("includes", 8), With(Wd("users", 5), ","),
           With(Cap("users", 5), ","), With(Up("users", 5), ","), Wd("roles", 5),
           Wd("and", 3), With(Wd("api", 3), ",") >>
        \o EnumWords(EnumItems)
        \o << With(Wd("done", 4), "."),
              Cap("formats", 7), Wd("such", 4), Wd("as", 2), With(Wd("json", 4), ","),
              Wd("yaml", 4), Wd("or", 2), Cap("backup", 6), With(Cap("plans", 5), "!"),
              Cap("including", 9), With(Wd("roles", 5), ","), Wd("audit", 5),
              Wd("logs", 4) >>)]

\* A page with a long item that a "!" cuts in two sentences: "Plugins such
\* as yyyy! extras, more."
PagePlugins ==
    [url |-> Url(SeedHost, 5, ""),
     html |-> Dom(Plain(<< Cap("plugins", 7) >>), << >>, << >>),
     content |-> Plain(<< Cap("plugins", 7), Wd("such", 4), Wd("as", 2),
                          With(Wd("y", LongItem), "!"), With(Wd("extras", 6), ","),
                          With(Wd("more", 4), ".") >>)]

\* A page whose markup the HTML parser cannot take.
PageBroken ==
    [url |-> Url(SeedHost, 6, ""),
     html |-> [kind |-> "none"],
     content |-> Plain(<< Cap("broken", 6), With(Wd("page", 4), ".") >>)]

\* A page without a <title>, headings or breadcrumbs.
PageBare ==
    [url |-> Url(SeedHost, 6, ""),
     html |-> Dom(EmptyStr, << >>, << >>),
     content |-> Plain(<< Cap("plain", 5), With(Wd("text", 4), ".") >>)]

\* The batches of at most n pages with distinct URLs.
Batches(n) ==
    LET Pages == {PageStart, PageAbout, PageShort, PageEnum, PagePlugins, PageBroken,
                  PageBare}
                     \cup {PageLong(run) : run \in Runs}
    IN
    {b \in UNION {[1..k -> Pages] : k \in 1..n} :
        \A i, j \in DOMAIN b : i # j => b[i].url # b[j].url}

\* No crawl is running: the state of the crawl's variables during a
\* pipeline run.
NoCrawl ==
    /\ start_url = NoUrl
    /\ max_depth = 0
    /\ max_pages = 0
    /\ site = "docs"
    /\ config = NoCache
    /\ store_up = TRUE
    /\ store = << >>
    /\ visited_urls = {}
    /\ results = << >>
    /\ tasks = << >>
    /\ sem_value = SemaphoreSlots
    /\ sem_waiters = << >>
    /\ outcome = "returned"
    /\ log = << >>
    /\ call = NoCall

\* A pipeline run starts on a batch of crawled pages: any batch on the
\* fallback path, a batch of at most MaxLabelled candidates on the embedding
\* path.
\* The analyzer's generative settings: not requested; requested without the
\* langchain packages, or without an API key; requested and in place, with
\* the backend answering every call or failing, at one step, the call made
\* for the module of one position.
LlmSettings ==
    {LlmOff}
    \cup {[LlmOff EXCEPT !.use_llm = TRUE, !.LLM_AVAILABLE = FALSE],
          [LlmOff EXCEPT !.use_llm = TRUE, !.OPENAI_API_KEY = FALSE]}
    \cup {[LlmOff EXCEPT !.use_llm = TRUE, !.fails = f, !.at = k] :
             f \in {"PromptTemplate", "LLMChain", "run", "strip"}, k \in 1..2}
    \cup {[LlmOff EXCEPT !.use_llm = TRUE]}

InitPipeline ==
    /\ NoCrawl
    /\ pc = "parse"
    /\ embedder \in BOOLEAN
    /\ llm \in LlmSettings
    /\ llm.use_llm => ~embedder
    /\ pages_data \in Batches(BatchLimit)
    /\ embedder =>
          Len(extract_candidate_modules(parse_multiple_pages(pages_data).parsed_pages))
              <= MaxLabelled
    /\ include_metadata = FALSE
    /\ parsed_pages = << >>
    /\ candidate_modules = << >>
    /\ labels = << >>
    /\ clusters = << >>
    /\ clustered_modules = << >>
    /\ modules = << >>
    /\ json_text = JArray(<< >>)
    /\ trouble = "none"

PipelineNext ==
    \/ ParseMultiplePages
    \/ ExtractCandidates
    \/ ClusterModules
    \/ GenerateDescriptions
    \/ GenerateJson

PipelineSpec == InitPipeline /\ [][PipelineNext]_vars

\* ============================================================== claims
Fetching == {k \in DOMAIN tasks : tasks[k].pc = "fetching"}

\* The URLs fetch_page was called for.
Fetched == {u \in DOMAIN log : log[u].calls > 0}

\* C1: the number of PageRecords in the result mapping is at most
\* max_pages plus the concurrency cap, under any interleaving.
C1_SoftPageCap == Cardinality(DOMAIN results) <= max_pages + SemaphoreSlots

\* C2: no two fetched URLs are canonicalization-equivalent: URLs that differ
\* only by trailing slash, query or fragment (the seed as supplied included)
\* are fetched at most once between them.
C2_NoEquivalentFetches ==
    \A u, v \in Fetched : normalize_url(u) = normalize_url(v) => u = v

\* C3: every PageRecord of the result mapping has 0 <= depth <= max_depth.
C3_DepthBound ==
    \A u \in DOMAIN results : 0 <= results[u].depth /\ results[u].depth <= max_depth

\* A page was recorded at the depth limit, below a page that linked to it.
C3_Witness ==
    /\ max_depth >= 1
    /\ \E u \in DOMAIN results : results[u].depth = max_depth

\* C4: every URL crawl_recursive is invoked on for a discovered link has the
\* seed's host or no host; a URL of another host is never visited or fetched.
C4_DomainContainment ==
    /\ \A k \in DOMAIN tasks \ {Root} :
          k[2].host \in {extract_domain(start_url), ""}
    /\ \A u \in visited_urls \cup DOMAIN log :
          u.host \in {extract_domain(start_url), ""}

\* The index page of the docs site, which links to b.org, was expanded, and
\* its link without a host was followed.
C4_Witness ==
    /\ site = "docs"
    /\ \E k \in DOMAIN tasks : k[1] = start_url /\ k[2].host = "" /\ tasks[k].pc = "done"

\* C5: at most 5 fetch_page bodies are in progress at any moment, however
\* many crawl_recursive tasks were started.
C5_ConcurrencyCap == Cardinality(Fetching) <= SemaphoreSlots

\* Five requests are in flight while another admitted task waits for a permit.
C5_Witness ==
    /\ Cardinality(Fetching) = SemaphoreSlots
    /\ \E k \in DOMAIN tasks : tasks[k].pc = "waitsem"

\* C7: fetch_page is called at most once for a URL string, whether the call
\* succeeded or failed; a URL that was fetched stays in the visited set.
C7_FetchedOnce ==
    \A u \in DOMAIN log : log[u].calls <= 1 /\ (log[u].calls = 1 => u \in visited_urls)

\* A URL whose fetch failed was discovered by two pages; the second
\* crawl_recursive for it returned at its entry.
C7_Witness ==
    \E u \in DOMAIN log :
        /\ log[u].result = "fail"
        /\ \E k1, k2 \in DOMAIN tasks :
              k1 # k2 /\ k1[2] = u /\ k2[2] = u /\ tasks[k1].pc = "done" /\ tasks[k2].pc = "done"

\* C9: if the cache holds an entry for URL X and caching is enabled, fetching
\* X sends no request, and the content and markup of X's PageRecord are the
\* cached ones.
C9_CacheHitNoNetwork ==
    \A u \in DOMAIN log :
        (log[u].held # NoEntry /\ config.CACHE_ENABLED) =>
            /\ log[u].reqs = 0
            /\ u \in DOMAIN results =>
                  /\ results[u].content = log[u].held.content
                  /\ results[u].html = log[u].held.html

\* A page was recorded from an entry an earlier run left in the store.
C9_Witness ==
    \E u \in DOMAIN results :
        /\ u \in DOMAIN log
        /\ log[u].held # NoEntry
        /\ results[u].content.src = "old"

FailedIn(lg, u) == u \in DOMAIN lg /\ lg[u].result = "fail"

\* A failed fetch leaves no record.
C6_NoRecord == \A u \in DOMAIN log : FailedIn(log, u) => u \notin DOMAIN results

\* The step in which the fetch of u fails changes nothing but the failing
\* task, which returns, and the waiter its permit goes to: no exception, no
\* record, and every other task as it was.
C6_FailStep(u) ==
    /\ results' = results
    /\ visited_urls' = visited_urls
    /\ outcome' # "raised"
    /\ DOMAIN tasks' = DOMAIN tasks
    /\ \A k \in DOMAIN tasks :
          IF k[2] = u /\ tasks[k].pc = "fetching"
          THEN tasks'[k] = [tasks[k] EXCEPT !.pc = "done"]
          ELSE \/ tasks'[k] = tasks[k]
               \/ /\ tasks[k].pc = "waitsem"
                  /\ tasks'[k] = [tasks[k] EXCEPT !.pc = "granted"]

\* When the crawl returns, every sibling of a failed URL has run to its end,
\* and each of them whose fetch succeeded is recorded with what was fetched.
C6_SiblingsCrawled ==
    outcome = "returned" =>
        \A k \in DOMAIN tasks : FailedIn(log, k[2]) =>
            \A s \in DOMAIN tasks : s[1] = k[1] =>
                /\ tasks[s].pc = "done"
                /\ (s[2] \in DOMAIN log /\ log[s[2]].result = "ok") =>
                      /\ s[2] \in DOMAIN results
                      /\ results[s[2]].content = Text(s[2].path, "net")

\* C6: when the fetch of a URL fails (non-200, network error, parse error),
\* no PageRecord is created for it, no exception reaches the caller, and its
\* sibling links are crawled and recorded as if it had not been there.
C6_FailedFetchIsolated ==
    /\ [](C6_NoRecord /\ C6_SiblingsCrawled)
    /\ [][\A u \in DOMAIN log' :
            (FailedIn(log', u) /\ ~FailedIn(log, u)) => C6_FailStep(u)]_vars

\* The crawl returned; a link of a page failed and a sibling of it is recorded.
C6_Witness ==
    /\ outcome = "returned"
    /\ \E k, s \in DOMAIN tasks :
          /\ k # s /\ k[1] = s[1]
          /\ FailedIn(log, k[2])
          /\ s[2] \in DOMAIN results
          /\ results[s[2]].depth = tasks[s].depth

FailingCache(S) == CacheClient(S) /\ ~S.store_up

\* The crawl's state without the store and the configuration.
Proj(S) ==
    [visited_urls |-> S.visited_urls, results |-> S.results, tasks |-> S.tasks,
     sem_value |-> S.sem_value, sem_waiters |-> S.sem_waiters,
     outcome |-> S.outcome, log |-> S.log]

\* Every state one step of the event loop can lead to from S.
Succ(S) ==
    UNION {enter(S, t) \cup resume(S, t) \cup fetch_done(S, t) \cup join(S, t) :
             t \in DOMAIN S.tasks}

\* C10: a failure of the store on get, set or delete never raises to the
\* caller: get returns no value, set and delete return failure, and a crawl
\* against a failing cache goes, step for step, as a crawl with no cache
\* configured, so it produces the same result mapping.
C10_CacheFailureSwallowed ==
    /\ ~call.raised
    /\ FailingCache(Cur) =>
          /\ call.op = "get" => call.value = NoEntry
          /\ call.op \in {"set", "delete"} => ~call.ok
          /\ {Proj(X) : X \in Succ(Cur)}
                = {Proj(X) : X \in Succ([Cur EXCEPT !.config = NoCache])}

\* A crawl against a store that does not answer returned pages, and a delete
\* was then tried.
C10_Witness ==
    /\ FailingCache(Cur)
    /\ store = Prepopulated
    /\ outcome = "returned"
    /\ Cardinality(DOMAIN results) >= 2
    /\ call.op = "delete"

\* The crawl_recursive invocations that run their entry checks in this step.
Entering == {t \in DOMAIN tasks : tasks[t].pc = "new" /\ tasks'[t].pc # "new"}

\* The three entry checks pass for invocation t in the current state.
EntryPasses(t) ==
    /\ tasks[t].depth <= max_depth
    /\ Cardinality(DOMAIN results) < max_pages
    /\ t[2] \notin visited_urls

\* C20: crawl_recursive marks a URL visited and calls fetch_page for it only
\* if at its entry depth <= max_depth, the result mapping has fewer than
\* max_pages entries and the URL is not in the visited set; when one of the
\* checks fails it returns and leaves the visited set and the result mapping
\* as they were, and calls no fetch_page.
C20_EntryFrame ==
    [][ /\ \A t \in Entering :
              IF EntryPasses(t)
              THEN /\ visited_urls' = visited_urls \cup {t[2]}
                   /\ LogOf([log |-> log'], t[2]).calls
                        = LogOf([log |-> log], t[2]).calls + 1
              ELSE /\ visited_urls' = visited_urls
                   /\ results' = results
                   /\ log' = log
                   /\ tasks'[t].pc = "done"
        /\ \A u \in visited_urls' \ visited_urls :
              \E t \in Entering : t[2] = u /\ EntryPasses(t)
        /\ \A u \in DOMAIN log' :
              LogOf([log |-> log'], u).calls # LogOf([log |-> log], u).calls
                  => \E t \in Entering : t[2] = u /\ EntryPasses(t)
      ]_vars

\* An invocation within the depth limit was turned away by the page cap (its
\* URL was never marked visited) and another because its URL was visited, in
\* a crawl that recorded pages.
C20_Witness ==
    /\ \E t \in DOMAIN tasks :
          /\ tasks[t].pc = "done"
          /\ tasks[t].depth <= max_depth
          /\ t[2] \notin visited_urls
          /\ Cardinality(DOMAIN results) >= max_pages
    /\ \E t \in DOMAIN tasks, k \in DOMAIN tasks :
          t # k /\ t[2] = k[2] /\ t[2] \in visited_urls /\ tasks[k].pc = "done"
    /\ results # << >>

\* ---------------------------------------------- claims on the pipeline
\* The run has passed generate_descriptions.
Described == pc \in {"output", "done"}

\* The submodule names and descriptions of the modules of the output.
SubmoduleItems ==
    UNION {{modules[i].Submodules[k] : k \in DOMAIN modules[i].Submodules} :
           i \in DOMAIN modules}

\* C11: the description the heuristic generator returns for a module has at
\* most 500 characters.
C11_DescriptionCap ==
    \A i \in DOMAIN modules : CatLen(modules[i].Description) <= 500

\* C12: the description stored for a submodule, the templated sentence
\* included, has at most 200 characters.
C12_SubmoduleDescriptionCap ==
    \A item \in SubmoduleItems : CatLen(item[2]) <= 200

\* C13: parsing the output of generate_json back yields, for each module in
\* order, the name, the description, the submodule mapping and the
\* confidence score of the input record (the score read from the module's
\* object or from its metadata object).
C13_JsonRoundTrip ==
    pc = "done" =>
        LET back == json_loads(json_text)
        IN  /\ Len(back) = Len(modules)
            /\ \A i \in DOMAIN modules :
                  /\ DictValue(back[i], "module", EmptyStr) = modules[i].module
                  /\ DictValue(back[i], "Description", << >>) = modules[i].Description
                  /\ DictValue(back[i], "Submodules", << >>) = modules[i].Submodules
                  /\ modules[i].confidence_score \in
                        {DictValue(back[i], "confidence_score", -1),
                         DictValue(DictValue(back[i], "metadata", << >>),
                                   "confidence_score", -1)}

\* The pages of the batch that parse, parsed, in the batch's order.
ParsablePages ==
    LET good == SelectSeq(pages_data, LAMBDA d : ~ParseRaises(d))
    IN  [i \in DOMAIN good |-> parse_page(good[i].url, good[i].html, good[i].content)]

\* C14: when parsing a page of the batch raises, parse_multiple_pages skips
\* the page, raises nothing, and returns every other page parsed, in order.
C14_ParseFailureSkipped ==
    pc # "parse" => trouble = "none" /\ parsed_pages = ParsablePages

\* C15: on the fallback path cluster_modules returns the first candidate of
\* every distinct lowercased name, in input order: as many modules as there
\* are case-insensitively distinct names.
C15_FallbackDedupe ==
    (pc \in {"describe", "output", "done"} /\ ~embedder) =>
        LET c == candidate_modules
            firsts == {i \in DOMAIN c :
                          \A j \in 1..(i - 1) : lower(c[j].name) # lower(c[i].name)}
        IN  /\ clustered_modules = SubSeqAt(c, firsts)
            /\ Len(clustered_modules)
                  = Cardinality({lower(c[i].name) : i \in DOMAIN c})

\* The rank of a candidate's source: title, h1, h2, h3, then any breadcrumb.
C16_Rank(source) ==
    CASE source = "title" -> 0
      [] source = "heading_h1" -> 1
      [] source = "heading_h2" -> 2
      [] source = "heading_h3" -> 3
      [] OTHER -> 4

\* C16: for every cluster, choose_main_module returns a member of the
\* cluster whose source has the best rank, and among the members of that
\* rank one with the longest content.
C16_MainModule ==
    \A k \in DOMAIN clusters :
        LET c == clusters[k]
            r == clustered_modules[k]
        IN  /\ \E i \in DOMAIN c : c[i] = r
            /\ \A j \in DOMAIN c :
                  /\ C16_Rank(r.source) <= C16_Rank(c[j].source)
                  /\ C16_Rank(r.source) = C16_Rank(c[j].source)
                        => StrLen(r.content) >= StrLen(c[j].content)

\* Two clusters whose representative is not their first member: one by the
\* rank of its source, one by the length of its content at equal rank.
C16_Witness ==
    /\ \E k \in DOMAIN clusters :
          C16_Rank(clustered_modules[k].source) < C16_Rank(clusters[k][1].source)
    /\ \E k \in DOMAIN clusters :
          /\ C16_Rank(clustered_modules[k].source) = C16_Rank(clusters[k][1].source)
          /\ StrLen(clustered_modules[k].content) > StrLen(clusters[k][1].content)

\* C17: the confidence score of a module, in tenths, is between 5 and 10 and
\* is 5, plus 2 if its content has more than 800 characters, plus 1 if its
\* description has more than 100, plus 1 if its source is "title".
C17_Confidence ==
    Described =>
        \A i \in DOMAIN modules :
            LET s == modules[i].confidence_score
            IN  /\ 5 <= s /\ s <= 10
                /\ s = 5 + (IF StrLen(clustered_modules[i].content) > 800 THEN 2 ELSE 0)
                         + (IF CatLen(modules[i].Description) > 100 THEN 1 ELSE 0)
                         + (IF clustered_modules[i].source = "title" THEN 1 ELSE 0)

\* An output with a module that earns every increment and one that earns
\* none.
C17_Witness ==
    /\ Described
    /\ \E i \in DOMAIN modules : modules[i].confidence_score = 9
    /\ \E i \in DOMAIN modules : modules[i].confidence_score = 5

\* C18: every module of the output has at most MAX_SUBMODULES_PER_MODULE
\* submodules, and their names are pairwise distinct when compared
\* case-insensitively.
C18_SubmoduleCap ==
    \A i \in DOMAIN modules :
        LET subs == modules[i].Submodules
        IN  /\ Len(subs) <= 10
            /\ \A j, k \in DOMAIN subs :
                  j # k => lower(subs[j][1]) # lower(subs[k][1])

\* A module with ten submodules whose content enumerates more than ten
\* items, some of them several times in different casings.
C18_Witness ==
    /\ Described
    /\ \E i \in DOMAIN modules :
          /\ Len(modules[i].Submodules) = 10
          /\ LET b == clustered_modules[i].content.body
             IN  /\ \E j, k \in DOMAIN b : j # k /\ b[j].w = b[k].w /\ b[j].cs # b[k].cs
                 /\ Cardinality({b[j].w : j \in {x \in DOMAIN b : b[x].n > 3 /\ b[x].p = ","}}) > 10

\* len(name.strip())
TrimmedLen(name) == StrLen(strip(name))

\* C19: no candidate extract_candidate_modules emits, no module name and no
\* submodule name of the output has a trimmed length of 3 characters or
\* fewer.
C19_NameLength ==
    /\ \A i \in DOMAIN candidate_modules : TrimmedLen(candidate_modules[i].name) > 3
    /\ \A i \in DOMAIN modules : TrimmedLen(modules[i].module) > 3
    /\ \A item \in SubmoduleItems : TrimmedLen(item[1]) > 3

\* A finished run on a page whose title has more than 3 characters as it
\* stands in the markup and 3 once stripped, and whose content enumerates an
\* item of 3 characters next to longer ones.
C19_Witness ==
    /\ pc = "done"
    /\ modules # << >>
    /\ \E i \in DOMAIN pages_data :
          /\ pages_data[i].html.kind = "dom"
          /\ StrLen(pages_data[i].html.title) > 3
          /\ TrimmedLen(pages_data[i].html.title) = 3
    /\ \E i \in DOMAIN pages_data :
          /\ \E j \in DOMAIN pages_data[i].content.body :
                pages_data[i].content.body[j] = With(Wd("api", 3), ",")
    /\ SubmoduleItems # {}

\* The links extract_links finds on a recorded page.
LinksOf(u) ==
    IF extract_links_raises(results[u].html) THEN {}
    ELSE extract_links(u, results[u].html, extract_domain(start_url))

\* The URLs at most n links from the start URL, through recorded pages.
RECURSIVE Within(_)
Within(n) ==
    IF n <= 0 THEN {start_url}
    ELSE LET near == Within(n - 1)
         IN  near \cup UNION {LinksOf(u) : u \in near \cap DOMAIN results}

\* The number of links of a shortest path from the start URL to u.
Distance(u) ==
    CHOOSE n \in 0..Cardinality(DOMAIN results) :
        u \in Within(n) /\ \A m \in 0..(n - 1) : u \notin Within(m)

\* C21: when the crawl has returned with fewer than max_pages records, every
\* URL at most max_depth links from the start URL, through recorded pages,
\* is in visited_urls.
C21_ReachableVisited ==
    (outcome = "returned" /\ max_depth >= 0 /\ Cardinality(DOMAIN results) < max_pages)
        => Within(max_depth) \subseteq visited_urls

\* C22: when the crawl has returned, the depth of every record is the number
\* of links of a shortest path from the start URL to its page.
C22_DepthIsDistance ==
    outcome = "returned" =>
        \A u \in DOMAIN results : results[u].depth = Distance(u)

\* The internal links of a recorded page in the order of its <a> tags, each
\* at its first occurrence.
Discovered(u) ==
    LET hs == SelectSeq(PageHrefs(results[u].html),
                        LAMBDA h : h.kind \notin {"anchor", "js"})
        ls == [i \in DOMAIN hs |-> normalize_url(urljoin(u, hs[i]))]
    IN  Dedupe(SelectSeq(ls, LAMBDA l : is_internal_link(l, extract_domain(start_url))))

\* C23: the crawls started from a page are at most LinkCap, and each is for
\* one of the first LinkCap links of the page in the order of discovery.
C23_FirstLinksFollowed ==
    \A u \in DOMAIN results :
        LET started == {t[2] : t \in {k \in DOMAIN tasks : k[1] = u}}
        IN  /\ Cardinality(started) <= LinkCap
            /\ started \subseteq Range(FirstN(Discovered(u), LinkCap))

\* C24: every key of results maps to a record whose url is the key and is in
\* visited_urls, and no step removes or changes a record.
C24_RecordsKept ==
    /\ [](\A u \in DOMAIN results : results[u].url = u /\ u \in visited_urls)
    /\ [][\A u \in DOMAIN results :
             u \in DOMAIN results' /\ results'[u] = results[u]]_vars

\* A recorded URL for which a second crawl_recursive was started and ended.
C24_Witness ==
    \E t1, t2 \in DOMAIN tasks :
        /\ t1 # t2
        /\ t1[2] = t2[2]
        /\ t1[2] \in DOMAIN results
        /\ tasks[t1].pc = "done"
        /\ tasks[t2].pc = "done"
        /\ Cardinality(DOMAIN results) >= 2

\* fetch_page gave crawl_recursive an empty text or an empty markup for u:
\* from a 200 response, or from the cache.
EmptyFetch(u) ==
    \/ log[u].result = "empty"
    \/ /\ log[u].result = "hit"
       /\ ~(Truthy(log[u].held.content) /\ Truthy(log[u].held.html))

\* C29: every record has a non-empty content and a non-empty html; a URL
\* whose fetch gave an empty content or an empty html has no record, no
\* crawl was started from it, and it is in visited_urls.
C29_NoEmptyRecord ==
    /\ \A u \in DOMAIN results :
          Truthy(results[u].content) /\ Truthy(results[u].html)
    /\ \A u \in DOMAIN log :
          EmptyFetch(u) =>
              /\ u \notin DOMAIN results
              /\ u \in visited_urls
              /\ \A t \in DOMAIN tasks : t[1] # u

\* A crawl with records in which the cache gave a text without markup for
\* one URL and an empty text for another.
C29_Witness ==
    /\ results # << >>
    /\ \E u \in DOMAIN log :
          /\ log[u].result = "hit"
          /\ Truthy(log[u].held.content)
          /\ ~Truthy(log[u].held.html)
    /\ \E u \in DOMAIN log :
          /\ log[u].result = "hit"
          /\ ~Truthy(log[u].held.content)
          /\ Truthy(log[u].held.html)

\* The tasks that hold a permit of the semaphore: those inside the body of
\* fetch_page, and the waiters a release has handed a permit to.
Holders == {t \in DOMAIN tasks : tasks[t].pc \in {"fetching", "granted"}}

\* C30: the permits taken from the semaphore are those of the tasks inside
\* fetch_page, a task that waits for its children holds none, the tasks
\* that wait for a permit wait for a task inside fetch_page, and when
\* crawl_documentation has returned all the permits are free.
C30_PermitsReleased ==
    /\ sem_value >= 0
    /\ sem_value + Cardinality(Holders) = SemaphoreSlots
    /\ (sem_value = 0 \/ sem_waiters # << >>) => Holders # {}
    /\ outcome = "returned" => sem_value = SemaphoreSlots

\* A crawl that has returned after more tasks than permits wanted to fetch,
\* one fetch failing and others succeeding.
C30_Witness ==
    /\ outcome = "returned"
    /\ Cardinality(DOMAIN tasks) > SemaphoreSlots + 1
    /\ \E u \in DOMAIN log : log[u].result = "fail"
    /\ Cardinality({u \in DOMAIN log : log[u].result = "ok"}) > SemaphoreSlots

\* C25: on the fallback path, for every candidate there is a module of the
\* same lowercased name whose source ranks at least as high: of the
\* candidates that collide on a name, one of the best rank is kept.
C25_CollisionPriority ==
    (pc \in {"describe", "output", "done"} /\ ~embedder) =>
        \A i \in DOMAIN candidate_modules :
            \E k \in DOMAIN clustered_modules :
                /\ lower(clustered_modules[k].name) = lower(candidate_modules[i].name)
                /\ C16_Rank(clustered_modules[k].source)
                      <= C16_Rank(candidate_modules[i].source)

\* cluster_modules has run.
Clustered == pc \in {"describe", "output", "done"}

\* The candidates DBSCAN gave the label c.
Labelled(c) == {candidate_modules[i] : i \in {j \in DOMAIN labels : labels[j] = c}}

\* C26: on the embedding path cluster_modules returns as many modules as
\* there are labels other than -1, one from the candidates of each such
\* label, and no candidate labelled -1; on the fallback path the name of
\* every candidate is the name of a module.
C26_NoiseDropped ==
    /\ (Clustered /\ embedder /\ candidate_modules # << >>) =>
          LET used == {labels[i] : i \in DOMAIN labels} \ {-1}
          IN  /\ Len(clustered_modules) = Cardinality(used)
              /\ \A c \in used :
                    \E k \in DOMAIN clustered_modules : clustered_modules[k] \in Labelled(c)
              /\ \A k \in DOMAIN clustered_modules : clustered_modules[k] \notin Labelled(-1)
    /\ (Clustered /\ ~embedder) =>
          \A i \in DOMAIN candidate_modules :
              \E k \in DOMAIN clustered_modules :
                  lower(clustered_modules[k].name) = lower(candidate_modules[i].name)

\* A run on the embedding path with two clusters and a candidate labelled
\* noise.
C26_Witness ==
    /\ pc = "done"
    /\ embedder
    /\ \E i \in DOMAIN labels : labels[i] = -1
    /\ Len(clustered_modules) = 2
    /\ Cardinality({labels[i] : i \in DOMAIN labels}) = 3


\* The generative mode was requested and the backend is missing, has no
\* credentials, or fails at a step of the description of a module that
\* exists.
GenerationFails ==
    /\ llm.use_llm
    /\ \/ ~llm.LLM_AVAILABLE
       \/ ~llm.OPENAI_API_KEY
       \/ llm.fails # "none" /\ llm.at \in DOMAIN clustered_modules

\* generate_descriptions has been called and has returned or raised.
DescriptionsLeft ==
    Described \/ (pc = "raised" /\ trouble \in {"PromptTemplate", "LLMChain"})

\* C27: when the generative mode is requested and the backend is missing, has
\* no credentials, or fails at a step of a module's description,
\* generate_descriptions raises nothing, returns a record for every module,
\* and gives that module the heuristic generator's description.
C27_GenerationFallback ==
    (GenerationFails /\ DescriptionsLeft) =>
        /\ trouble = "none"
        /\ Len(modules) = Len(clustered_modules)
        /\ \A i \in DOMAIN modules :
              (llm.fails = "none" \/ llm.at = i) =>
                  modules[i].Description =
                      generate_description_algorithmic(
                          clustered_modules[i], combine_content(parsed_pages))


\* C28: a run over at least one crawled page returns a module list that is
\* not empty, with the embedder and without it.
C28_ModulesNotEmpty ==
    (Described /\ pages_data # << >>) => modules # << >>

====
